---- MODULE Spec2Model ----
(***************************************************************************)
(* Model of pyama_squares.py: squared bounding boxes drawn into per-margin *)
(* frame stacks.                                                           *)
(*                                                                         *)
(* Representation.                                                         *)
(*   - A stack is a function frame -> y -> x -> value (numpy uint8 array   *)
(*     of shape (n_frames, height, width)), indices starting at 0.         *)
(*   - A floating coordinate (x_mean, y_mean) is kept as twice its value   *)
(*     (x_mean2, y_mean2), an integer: integers and half-integers are the  *)
(*     values at which np.rint changes or ties.                            *)
(*   - Python's None and Ellipsis are tagged records (NoneKey,             *)
(*     EllipsisKey), an integer key k is IntKey(k).                        *)
(*   - An optional integer argument is [some |-> BOOLEAN, v |-> Int].      *)
(*   - A dict is the sequence of its items in insertion order.             *)
(*   - A relative margin is kept as the percentage 100 * (1 + margin), as  *)
(*     given on the command line.                                          *)
(***************************************************************************)
EXTENDS Integers, Sequences, FiniteSets, TLC

VARIABLES
  pc,      \* position of the run
  stack,   \* the stack handed to insert_bb, after the call
  before,  \* that stack before the call
  call,    \* the arguments of the last insert_bb call
  roi,     \* the extents x1:x2, y1:y2 insert_bb computed
  diag,    \* the diagnostics the last operation printed to stderr
  args,    \* the arguments of varying_margins_centered or main
  result,  \* what varying_margins_centered or make_empty_bboxes returned
  empty,   \* main's variable `empty`
  out      \* the stacks main exported, one entry per processed file

vars == <<pc, stack, before, call, roi, diag, args, result, empty, out>>

(* ------------------------------ bounds --------------------------------- *)

Width == 3

Height == 2

NFrames == 2

MaxArea == 4

MaxEmpty == 1

MaxFiles == 2

(* ------------------------------ keys ----------------------------------- *)

NoneKey == [tag |-> "None", i |-> 0]

EllipsisKey == [tag |-> "Ellipsis", i |-> 0]

IntKey(k) == [tag |-> "int", i |-> k]

NoInt == [some |-> FALSE, v |-> 0]

SomeInt(n) == [some |-> TRUE, v |-> n]

(* ------------------------------ numerics -------------------------------- *)

\* np.rint of the value v2 / 2: round to nearest, ties to the even integer.
RInt2(v2) ==
  IF v2 % 2 = 0 THEN v2 \div 2
  ELSE LET f == (v2 - 1) \div 2
       IN  IF f % 2 = 0 THEN f ELSE f + 1

\* Largest s >= 0 with s * s * den <= num (floor of sqrt(num / den)).
FloorSqrt(num, den) ==
  CHOOSE s \in 0..num : s * s * den <= num /\ (s + 1) * (s + 1) * den > num

\* The integer nearest to sqrt(num / den), given its floor f; a tie goes to
\* the even one.
NearestFrom(f, num, den) ==
  IF 4 * num < (2 * f + 1) * (2 * f + 1) * den THEN f
  ELSE IF 4 * num > (2 * f + 1) * (2 * f + 1) * den THEN f + 1
  ELSE IF f % 2 = 0 THEN f ELSE f + 1

\* np.rint(np.sqrt(num / den)) for num >= 0, den > 0.
RIntSqrt(num, den) == NearestFrom(FloorSqrt(num, den), num, den)

\* np.rint(a / b) for a >= 0, b > 0.
RIntDiv(a, b) ==
  LET q == a \div b
      r == a % b
  IN  IF 2 * r < b THEN q
      ELSE IF 2 * r > b THEN q + 1
      ELSE IF q % 2 = 0 THEN q ELSE q + 1

(* ------------------------------ stacks ---------------------------------- *)

\* np.zeros((n_frames, height, width), dtype=np.uint8)
Zeros(n_frames, height, width) ==
  [f \in 0..(n_frames - 1) |-> [y \in 0..(height - 1) |-> [x \in 0..(width - 1) |-> 0]]]

StackFrames(s) == Cardinality(DOMAIN s)

StackHeight(s) == Cardinality(DOMAIN s[0])

StackWidth(s) == Cardinality(DOMAIN s[0][0])

\* One bound of a numpy slice over an axis of length n: a negative bound counts
\* from the end of the axis, and the result is clipped to 0..n.
SliceBound(i, n) ==
  IF i < 0 THEN (IF i + n < 0 THEN 0 ELSE i + n)
  ELSE (IF i > n THEN n ELSE i)

\* Whether the slice a:b over an axis of length n selects the index i.
InSlice(i, a, b, n) == SliceBound(a, n) <= i /\ i < SliceBound(b, n)

\* Whether the first index of stack[frame, ..., y1:y2, x1:x2] selects the frame
\* f: None and Ellipsis have become slice(None), every frame.
FrameSel(f, frame) == frame.tag # "int" \/ f = frame.i

\* stack[frame, ..., y1:y2, x1:x2] = val
Assign(s, frame, y1, y2, x1, x2, val) ==
  [f \in DOMAIN s |->
    IF ~FrameSel(f, frame) THEN s[f]
    ELSE [y \in DOMAIN s[f] |->
           IF ~InSlice(y, y1, y2, StackHeight(s)) THEN s[f][y]
           ELSE [x \in DOMAIN s[f][y] |->
                  IF InSlice(x, x1, x2, StackWidth(s)) THEN val ELSE s[f][y][x]]]]

(* ------------------------------ insert_bb ------------------------------- *)

\* w = bb['x_max'] - bb['x_min'] + 1
BBSize(lo, hi) == hi - lo + 1

\* if bb_width is None: bb_width = w
OrDefault(opt, d) == IF opt.some THEN opt.v ELSE d

\* weighted: np.rint(bb['x_mean']).astype(int) - bb_width // 2
CentroidStart(mean2, size) == RInt2(mean2) - (size \div 2)

BoundsStartFromCentre(lo, size, old) == lo - (size \div 2)

\* not weighted: bb['x_min'] - (bb_width - w) // 2
BoundsStart(lo, size, old) == lo - ((size - old) \div 2)

\* The start of the new box along one axis (lines 103..112).
Start(weighted, lo, hi, mean2, size) ==
  IF weighted THEN CentroidStart(mean2, size) ELSE BoundsStart(lo, size, BBSize(lo, hi))

\* The extents of a box of the size bw x bh placed for the bounding box bb.
Place(bb, bw, bh, weighted) ==
  [x1 |-> Start(weighted, bb.x_min, bb.x_max, bb.x_mean2, bw),
   x2 |-> Start(weighted, bb.x_min, bb.x_max, bb.x_mean2, bw) + bw,
   y1 |-> Start(weighted, bb.y_min, bb.y_max, bb.y_mean2, bh),
   y2 |-> Start(weighted, bb.y_min, bb.y_max, bb.y_mean2, bh) + bh]

\* The extents x1:x2, y1:y2 computed for a bounding box (lines 93..112).
Extents(bb, bb_width, bb_height, weighted) ==
  Place(bb, OrDefault(bb_width, BBSize(bb.x_min, bb.x_max)),
        OrDefault(bb_height, BBSize(bb.y_min, bb.y_max)), weighted)

\* if x1 < 0 or x2 > width or y1 < 0 or y2 > height
HitsBorder(e, width, height) ==
  e.x1 < 0 \/ e.x2 > width \/ e.y1 < 0 \/ e.y2 > height

\* msg = "INCLUDE" if ignore_borders else "EXCLUDE"
BorderTag(ignore_borders) == IF ignore_borders THEN "INCLUDE" ELSE "EXCLUDE"

OmitsNothing(hits, ignore_borders) == FALSE

\* if not ignore_borders: return
Omits(hits, ignore_borders) == hits /\ ~ignore_borders

ClampLowMissing(v) == v

\* if x1 < 0: x1 = 0
ClampLow(v) == IF v < 0 THEN 0 ELSE v

\* if x2 > width: x2 = width
ClampHigh(v, n) == IF v > n THEN n ELSE v

DrawValueAlwaysTwo(hits) == 2

\* val = 2 when the box hits a border, 1 otherwise
DrawValue(hits) == IF hits THEN 2 ELSE 1

\* Lines 115..140 for the extents e, hits telling whether they exceed the
\* image: the stack after the call, the diagnostics printed to stderr and the
\* extents as computed before any clamping.
Draw(s, e, hits, frame, ignore_borders) ==
  [stack |-> IF Omits(hits, ignore_borders) THEN s
             ELSE IF hits
             THEN Assign(s, frame, ClampLow(e.y1), ClampHigh(e.y2, StackHeight(s)),
                         ClampLow(e.x1), ClampHigh(e.x2, StackWidth(s)), DrawValue(hits))
             ELSE Assign(s, frame, e.y1, e.y2, e.x1, e.x2, DrawValue(hits)),
   diag |-> IF hits THEN <<BorderTag(ignore_borders)>> ELSE <<>>,
   roi |-> e]

\* Lines 114..140 for the extents e.
DrawExtents(s, e, frame, ignore_borders) ==
  Draw(s, e, HitsBorder(e, StackWidth(s), StackHeight(s)), frame, ignore_borders)

\* insert_bb(stack, bb, bb_width, bb_height, frame, weighted, ignore_borders)
InsertBB(s, bb, bb_width, bb_height, frame, weighted, ignore_borders) ==
  DrawExtents(s, Extents(bb, bb_width, bb_height, weighted), frame, ignore_borders)

(* --------------------------- make_empty_bboxes --------------------------- *)

\* An element of the iterable handed to make_empty_bboxes: a coordinate pair
\* (subscriptable), or an integer key when the iterable is a dict.
Pair(x, y) == [tag |-> "pair", x |-> x, y |-> y]

\* w = np.rint(np.sqrt(area))
EmptyWidth(area) == RIntSqrt(area, 1)

\* h = np.rint(area / w)
EmptyHeight(area) == RIntDiv(area, EmptyWidth(area))

\* x2 = x1 + w, stored as x_max
EmptyMax(lo, size) == lo + size

\* The bounding box with the lower corner (x1, y1) and the size w x h (lines
\* 67..77).
EmptyBoxFrom(x1, y1, w, h) ==
  [x_min |-> x1, x_max |-> EmptyMax(x1, w), x_mean2 |-> x1 + EmptyMax(x1, w),
   y_min |-> y1, y_max |-> EmptyMax(y1, h), y_mean2 |-> y1 + EmptyMax(y1, h), area |-> w * h]

\* The bounding box built for the coordinate c (lines 59..77); every value is
\* integral, so the np.rint of lines 65 and 66 changes nothing.
EmptyBox(c, area) ==
  EmptyBoxFrom(c.x - (EmptyWidth(area) \div 2), c.y - (EmptyHeight(area) \div 2),
               EmptyWidth(area), EmptyHeight(area))

\* The frame key under which a synthetic box is stored: bboxes[i] = {None: ...}
EmptyFrameKey == NoneKey

\* make_empty_bboxes(coords, area): a dict keyed by position, or the TypeError
\* of c[0] when an element of coords is not subscriptable.
MakeEmptyBBoxes(coords, area) ==
  IF \E i \in 1..Len(coords) : coords[i].tag # "pair"
  THEN [ok |-> FALSE, error |-> "TypeError", v |-> <<>>]
  ELSE [ok |-> TRUE, error |-> "",
        v |-> [i \in 1..Len(coords) |->
                 [k |-> IntKey(i - 1),
                  tr |-> <<[fr |-> EmptyFrameKey, bb |-> EmptyBox(coords[i], area)]>>]]]

(* ------------------------ varying_margins_centered ----------------------- *)

\* The item of a collection that holds the stack's dimensions under the key None.
MetaItem(n_frames, width, height) ==
  [k |-> NoneKey, tr |-> <<>>, n_frames |-> n_frames, width |-> width, height |-> height]

\* The item of a collection that holds the track tr under the identifier id.
TrackItem(id, tr) == [k |-> IntKey(id), tr |-> tr]

HasKey(coll, key) == \E i \in 1..Len(coll) : coll[i].k = key

Lookup(coll, key) == coll[CHOOSE i \in 1..Len(coll) : coll[i].k = key]

MetaSourceLast(colls) == colls[Len(colls)]

\* The collection searched for the stack's dimensions: bboxes[0][None]
MetaSource(colls) == colls[1]

\* it for bbx in bboxes if bbx for it in bbx.items()
RECURSIVE Items(_)
Items(colls) ==
  IF colls = <<>> THEN <<>> ELSE Head(colls) \o Items(Tail(colls))

\* if k is None: continue
SkipsItem(k) == k = NoneKey

SkipsPlaceholders(fr) == fr = EllipsisKey \/ fr = NoneKey

\* if fr is ...: continue
SkipsFrame(fr) == fr = EllipsisKey

\* bb_length = np.rint(np.sqrt((1 + margin) * area)).astype(int)
BBLength(pct, area) == RIntSqrt(pct * area, 100)

\* A dict's keys after the key m is set: a key given twice is kept once.
WithKey(keys, m) ==
  IF \E i \in 1..Len(keys) : keys[i] = m THEN keys ELSE Append(keys, m)

\* The keys of the dict stacks, in insertion order.
RECURSIVE MarginKeys(_)
MarginKeys(margins) ==
  IF margins = <<>> THEN <<>>
  ELSE WithKey(MarginKeys(SubSeq(margins, 1, Len(margins) - 1)), margins[Len(margins)])

\* The stacks and the diagnostics after one insert_bb call on the stack of pct.
Drawn(st, pct, r) ==
  [stacks |-> [st.stacks EXCEPT ![pct] = r.stack], diag |-> st.diag \o r.diag]

\* The body of `for fr, bb in tr.items()`: one frame entry of a track drawn
\* into the stack of one margin.
DrawEntry(st, e, pct, area, ignore_borders) ==
  IF SkipsFrame(e.fr) THEN st
  ELSE Drawn(st, pct, InsertBB(st.stacks[pct], e.bb, SomeInt(BBLength(pct, area)),
                               SomeInt(BBLength(pct, area)), e.fr, TRUE, ignore_borders))

\* for fr, bb in tr.items(): one track drawn into the stack of one margin.
RECURSIVE DrawEntries(_, _, _, _, _)
DrawEntries(st, tr, pct, area, ignore_borders) ==
  IF tr = <<>> THEN st
  ELSE DrawEntries(DrawEntry(st, Head(tr), pct, area, ignore_borders),
                   Tail(tr), pct, area, ignore_borders)

\* for margin, stack in stacks.items(): one track drawn into every stack.
RECURSIVE DrawMargins(_, _, _, _, _)
DrawMargins(st, tr, keys, area, ignore_borders) ==
  IF keys = <<>> THEN st
  ELSE DrawMargins(DrawEntries(st, tr, Head(keys), area, ignore_borders),
                   tr, Tail(keys), area, ignore_borders)

\* The body of `for k, tr in ...`: one item of a collection.
DrawItem(st, it, keys, area, ignore_borders) ==
  IF SkipsItem(it.k) THEN st ELSE DrawMargins(st, it.tr, keys, area, ignore_borders)

\* for k, tr in ...: every item of every collection.
RECURSIVE DrawItems(_, _, _, _, _)
DrawItems(st, items, keys, area, ignore_borders) ==
  IF items = <<>> THEN st
  ELSE DrawItems(DrawItem(st, Head(items), keys, area, ignore_borders),
                 Tail(items), keys, area, ignore_borders)

\* stacks[margin] = np.zeros((n_frames, height, width)) for every margin.
Allocate(meta, keys) ==
  [stacks |-> [m \in {keys[i] : i \in 1..Len(keys)} |->
                 Zeros(meta.n_frames, meta.height, meta.width)],
   diag |-> <<>>]

\* What varying_margins_centered returns, with what it printed.
Returned(st) == [ok |-> TRUE, error |-> "", stacks |-> st.stacks, diag |-> st.diag]

\* varying_margins_centered(area, *bboxes, margins, ignore_borders): the dict of
\* stacks, or the KeyError of bboxes[0][None].
VaryingMarginsCentered(area, colls, margins, ignore_borders) ==
  IF ~HasKey(MetaSource(colls), NoneKey)
  THEN [ok |-> FALSE, error |-> "KeyError", diag |-> <<>>]
  ELSE Returned(DrawItems(Allocate(Lookup(MetaSource(colls), NoneKey), MarginKeys(margins)),
                          Items(colls), MarginKeys(margins), area, ignore_borders))

(* --------------------- specification: insert_bb calls -------------------- *)

NoCall == [op |-> "none"]

NoRoi == [x1 |-> 0, x2 |-> 0, y1 |-> 0, y2 |-> 0]

\* A bounding box with inclusive extents lo..lo+size-1 whose centroid is the
\* midpoint of the extents.
Box(x_min, w, y_min, h) ==
  [x_min |-> x_min, x_max |-> x_min + w - 1, x_mean2 |-> 2 * x_min + w - 1,
   y_min |-> y_min, y_max |-> y_min + h - 1, y_mean2 |-> 2 * y_min + h - 1]

\* A bounding box around a centroid given as twice its coordinates.
BoxAt(x_mean2, y_mean2) ==
  [x_min |-> x_mean2 \div 2, x_max |-> (x_mean2 + 1) \div 2, x_mean2 |-> x_mean2,
   y_min |-> y_mean2 \div 2, y_max |-> (y_mean2 + 1) \div 2, y_mean2 |-> y_mean2]

\* The values of the argument frame: None, Ellipsis or a frame index.
FrameArgs == {NoneKey, EllipsisKey} \cup {IntKey(f) : f \in 0..(NFrames - 1)}

Called(s, r, next, c) ==
  /\ pc' = next
  /\ before' = s
  /\ stack' = r.stack
  /\ diag' = r.diag
  /\ roi' = r.roi
  /\ call' = c
  /\ UNCHANGED <<args, result, empty, out>>

Call(s, bb, bb_width, bb_height, frame, weighted, ignore_borders, next) ==
  Called(s, InsertBB(s, bb, bb_width, bb_height, frame, weighted, ignore_borders), next,
         [op |-> "insert_bb", bb |-> bb, bb_width |-> bb_width, bb_height |-> bb_height,
          frame |-> frame, weighted |-> weighted, ignore_borders |-> ignore_borders])

InitInsert ==
  /\ pc = "fresh"
  /\ stack = Zeros(NFrames, Height, Width)
  /\ before = Zeros(NFrames, Height, Width)
  /\ call = NoCall
  /\ roi = NoRoi
  /\ diag = <<>>
  /\ args = NoCall
  /\ result = NoCall
  /\ empty = NoCall
  /\ out = <<>>

\* An earlier ROI already in the stack: a square that covers the image (drawn
\* with 1), one that overhangs it on every side (drawn with 2), or a single
\* pixel in the first frame.
Paint ==
  /\ pc = "fresh"
  /\ \/ Call(stack, Box(0, Width, 0, Height), NoInt, NoInt, NoneKey, FALSE, FALSE, "painted")
     \/ Call(stack, Box(-1, Width + 2, -1, Height + 2), NoInt, NoInt, NoneKey, FALSE, TRUE, "painted")
     \/ Call(stack, Box(0, 1, 0, 1), NoInt, NoInt, IntKey(0), FALSE, FALSE, "painted")

\* insert_bb centred at the centroid (weighted=True), as the compositor calls it.
InsertWeighted ==
  /\ pc \in {"fresh", "painted"}
  /\ \E mx \in (-4)..(2 * Width + 2), my \in (-4)..(2 * Height + 2),
        bw \in 0..(Width + 1), bh \in 1..Height,
        frame \in FrameArgs, ignore_borders \in BOOLEAN :
       Call(stack, BoxAt(mx, my), SomeInt(bw), SomeInt(bh), frame, TRUE, ignore_borders, "inserted")

\* insert_bb centred in the old bounding box (weighted=False), the size kept
\* (bb_width, bb_height unset) or overwritten.
InsertBounds ==
  /\ pc \in {"fresh", "painted"}
  /\ \E x_min \in (-2)..Width, w \in 1..2, y_min \in (-2)..Height, h \in 1..2,
        bb_width \in {NoInt} \cup {SomeInt(n) : n \in 1..Width},
        bb_height \in {NoInt} \cup {SomeInt(n) : n \in 1..Height},
        frame \in FrameArgs, ignore_borders \in BOOLEAN :
       Call(stack, Box(x_min, w, y_min, h), bb_width, bb_height, frame, FALSE, ignore_borders, "inserted")

NextInsert == Paint \/ InsertWeighted \/ InsertBounds

SpecInsert == InitInsert /\ [][NextInsert]_vars

(* ------------------------ properties of insert_bb ------------------------ *)

Inserted == pc = "inserted"

Targeted(f) == FrameSel(f, call.frame)

InRoi(y, x) == roi.x1 <= x /\ x < roi.x2 /\ roi.y1 <= y /\ roi.y2 > y

RoiHits == HitsBorder(roi, Width, Height)

Pixels == (0..(NFrames - 1)) \X (0..(Height - 1)) \X (0..(Width - 1))

\* C1: a ROI whose extents exceed the image, inserted with ignore_borders=true,
\* writes 2 to exactly the pixels of the targeted frames in the intersection of
\* its extents with the image, changes no other pixel and prints one "INCLUDE".
C1_ClippedDrawIsIntersection ==
  (Inserted /\ call.ignore_borders /\ RoiHits) =>
    /\ diag = <<"INCLUDE">>
    /\ \A p \in Pixels :
         stack[p[1]][p[2]][p[3]] =
           IF Targeted(p[1]) /\ InRoi(p[2], p[3]) THEN 2 ELSE before[p[1]][p[2]][p[3]]

\* C1 restricted to ROIs whose upper extents x2, y2 are not negative.
C1_ClippedDrawNonNegativeEnd ==
  (Inserted /\ call.ignore_borders /\ RoiHits /\ roi.x2 >= 0 /\ roi.y2 >= 0) =>
    /\ diag = <<"INCLUDE">>
    /\ \A p \in Pixels :
         stack[p[1]][p[2]][p[3]] =
           IF Targeted(p[1]) /\ InRoi(p[2], p[3]) THEN 2 ELSE before[p[1]][p[2]][p[3]]

\* C2: a ROI whose extents exceed the image, inserted with ignore_borders=false,
\* leaves every pixel of the stack unchanged and prints one "EXCLUDE".
C2_ExcludedLeavesStack ==
  (Inserted /\ ~call.ignore_borders /\ RoiHits) =>
    /\ stack = before
    /\ diag = <<"EXCLUDE">>

C2_Witness ==
  /\ Inserted /\ ~call.ignore_borders /\ RoiHits
  /\ roi.x1 < 0 /\ roi.x2 > 0 /\ roi.y1 >= 0 /\ roi.y2 <= Height
  /\ before[0][0][0] = 1
  /\ diag = <<"EXCLUDE">>

\* C3: a ROI whose extents lie within the image sets every pixel of its extents
\* in the targeted frames to 1, writes 2 nowhere and prints no diagnostic, with
\* either ignore_borders setting.
C3_FittingDrawsOne ==
  (Inserted /\ ~RoiHits) =>
    /\ diag = <<>>
    /\ \A p \in Pixels :
         /\ (Targeted(p[1]) /\ InRoi(p[2], p[3])) => stack[p[1]][p[2]][p[3]] = 1
         /\ stack[p[1]][p[2]][p[3]] = 2 => before[p[1]][p[2]][p[3]] = 2

C3_Witness ==
  /\ Inserted /\ ~RoiHits /\ call.ignore_borders
  /\ roi.x2 > roi.x1 /\ roi.y2 > roi.y1
  /\ before[0][0][0] = 2
  /\ \E p \in Pixels : stack[p[1]][p[2]][p[3]] = 1

\* C8: in bounds-centred mode (weighted=False), with the target size equal to
\* the box's own size (or unset), a box inside the image is drawn at exactly
\* its own pixels: x1 = x_min, x2 = x_max + 1, y1 = y_min, y2 = y_max + 1.
C8_BoundsIdentity ==
  (/\ Inserted /\ ~call.weighted
   /\ call.bb.x_min >= 0 /\ call.bb.x_max < Width
   /\ call.bb.y_min >= 0 /\ call.bb.y_max < Height
   /\ \/ call.bb_width = NoInt /\ call.bb_height = NoInt
      \/ /\ call.bb_width = SomeInt(call.bb.x_max - call.bb.x_min + 1)
         /\ call.bb_height = SomeInt(call.bb.y_max - call.bb.y_min + 1)) =>
    /\ roi = [x1 |-> call.bb.x_min, x2 |-> call.bb.x_max + 1,
              y1 |-> call.bb.y_min, y2 |-> call.bb.y_max + 1]
    /\ \A p \in Pixels :
         stack[p[1]][p[2]][p[3]] =
           IF /\ Targeted(p[1])
              /\ call.bb.y_min <= p[2] /\ p[2] <= call.bb.y_max
              /\ call.bb.x_min <= p[3] /\ p[3] <= call.bb.x_max
           THEN 1 ELSE before[p[1]][p[2]][p[3]]

C8_Witness ==
  /\ Inserted /\ ~call.weighted
  /\ call.bb.x_min = 1 /\ call.bb.x_max = 2 /\ call.bb.y_min = 0 /\ call.bb.y_max = 1
  /\ call.bb_width = SomeInt(2) /\ call.bb_height = SomeInt(2)
  /\ stack[0][1][2] = 1 /\ stack[0][0][0] = 0

(* ---------------- specification: varying_margins_centered ---------------- *)

\* Relative ROI areas in percent of the adhesion site area (option --margin):
\* margin -1, no margin, and margins whose side rounds up, down or ties.
Percents == {0, 100, 125, 225, 400}

Areas == 1..MaxArea

\* Centroids inside the image, as twice their coordinates.
Centroids == (0..(2 * (Width - 1))) \X (0..(2 * (Height - 1)))

\* The movement of a cell from one frame to the next, in half pixels.
Drifts == {<<0, 0>>, <<1, -1>>}

\* Centroids at whole pixels.
PixelCentroids == {c \in Centroids : c[1] % 2 = 0 /\ c[2] % 2 = 0}

\* The track of a cell seen in the frames 0..k-1, starting at the centroid c
\* and moving by d per frame.
CellTrack(c, d, k) ==
  [i \in 1..k |-> [fr |-> IntKey(i - 1), bb |-> BoxAt(c[1] + (i - 1) * d[1], c[2] + (i - 1) * d[2])]]

InImage(tr) ==
  \A i \in 1..Len(tr) : <<tr[i].bb.x_mean2, tr[i].bb.y_mean2>> \in Centroids

TheMeta == MetaItem(NFrames, Width, Height)

\* The sequences of at most n elements of S.
SeqsUpTo(S, n) == UNION {[1..k -> S] : k \in 0..n}

\* The input files: the StackMeta alone, or with one cell in frame 0 at a
\* corner of the image.
Files ==
  {<<TheMeta>>}
  \cup {<<TheMeta, TrackItem(0, CellTrack(c, <<0, 0>>, 1))>> :
          c \in {<<0, 0>>, <<2 * (Width - 1), 2 * (Height - 1)>>}}

InitCompose ==
  /\ pc = "idle"
  /\ stack = Zeros(NFrames, Height, Width)
  /\ before = Zeros(NFrames, Height, Width)
  /\ call = NoCall
  /\ roi = NoRoi
  /\ diag = <<>>
  /\ args = NoCall
  /\ result = NoCall
  /\ empty = NoCall
  /\ out = <<>>

Composed(r, a) ==
  /\ pc' = "composed"
  /\ args' = a
  /\ result' = r
  /\ diag' = r.diag
  /\ UNCHANGED <<stack, before, call, roi, empty, out>>

Compose(kind, area, colls, margins, ignore_borders, coords) ==
  Composed(VaryingMarginsCentered(area, colls, margins, ignore_borders),
           [op |-> kind, area |-> area, colls |-> colls, margins |-> margins,
            ignore_borders |-> ignore_borders, coords |-> coords])

\* One tracked cell, one or two margins.
ComposeOneCell ==
  /\ pc = "idle"
  /\ \E c \in Centroids, d \in Drifts, k \in 1..NFrames, area \in Areas,
        m1 \in Percents, m2 \in Percents, ignore_borders \in BOOLEAN :
       /\ m1 <= m2
       /\ InImage(CellTrack(c, d, k))
       /\ Compose("one", area, <<(<<TheMeta, TrackItem(0, CellTrack(c, d, k))>>)>>,
                  IF m1 = m2 THEN <<m1>> ELSE <<m1, m2>>, ignore_borders, <<>>)

\* Two cells, each seen in one frame (the first or another); the second track may also hold an entry
\* under the key Ellipsis.
ComposeTwoCells ==
  /\ pc = "idle"
  /\ \E c1 \in Centroids, c2 \in PixelCentroids, f2 \in 0..(NFrames - 1),
        area \in Areas, all \in BOOLEAN, ignore_borders \in BOOLEAN :
       LET t1 == <<[fr |-> IntKey(0), bb |-> BoxAt(c1[1], c1[2])]>>
           t2 == (IF all THEN <<[fr |-> EllipsisKey, bb |-> BoxAt(c1[1], c1[2])]>> ELSE <<>>)
                 \o <<[fr |-> IntKey(f2), bb |-> BoxAt(c2[1], c2[2])]>>
       IN  Compose("two", area, <<(<<TheMeta, TrackItem(0, t1), TrackItem(1, t2)>>)>>,
                   <<100>>, ignore_borders, <<>>)

\* A file of detections and the synthetic empty sites, as main passes them.
ComposeWithEmpty ==
  /\ pc = "idle"
  /\ \E file \in Files,
        coords \in SeqsUpTo({Pair(x, y) : x \in 0..(Width - 1), y \in 0..(Height - 1)}, MaxEmpty) \ {<<>>},
        area \in Areas, m \in Percents, ignore_borders \in BOOLEAN :
       Compose("empty", area, <<file, MakeEmptyBBoxes(coords, area).v>>,
               <<m>>, ignore_borders, coords)

\* Two collections of which one, the first or the second, holds the stack's
\* dimensions; the other may be empty.
ComposeMetaAt ==
  /\ pc = "idle"
  /\ \E pos \in 1..2, n \in 1..NFrames, c \in PixelCentroids, other \in BOOLEAN,
        area \in Areas, m \in Percents, ignore_borders \in BOOLEAN :
       LET with == <<MetaItem(n, Width, Height), TrackItem(0, CellTrack(c, <<0, 0>>, 1))>>
           without == IF other THEN <<TrackItem(1, CellTrack(c, <<0, 0>>, 1))>> ELSE <<>>
       IN  Compose("meta", area, IF pos = 1 THEN <<with, without>> ELSE <<without, with>>,
                   <<m>>, ignore_borders, <<>>)

NextCompose == ComposeOneCell \/ ComposeTwoCells

SpecCompose == InitCompose /\ [][NextCompose]_vars

NextSites == ComposeWithEmpty \/ ComposeMetaAt

SpecSites == InitCompose /\ [][NextSites]_vars

(* ------------------ properties of varying_margins_centered ---------------- *)

Composed1(kind) == pc = "composed" /\ args.op = kind

\* The number of columns, and of rows, of frame f that hold a drawn pixel.
DrawnWidth(s, f) ==
  Cardinality({x \in DOMAIN s[f][0] : \E y \in DOMAIN s[f] : s[f][y][x] # 0})

DrawnHeight(s, f) ==
  Cardinality({y \in DOMAIN s[f] : \E x \in DOMAIN s[f][y] : s[f][y][x] # 0})

\* The extents of the square of the margin pct around the bounding box bb.
SquareOf(bb, pct) ==
  Extents(bb, SomeInt(BBLength(pct, args.area)), SomeInt(BBLength(pct, args.area)), TRUE)

SquareHits(bb, pct) == HitsBorder(SquareOf(bb, pct), Width, Height)

TheTrack == args.colls[1][2].tr

MarginPairs ==
  {mm \in (DOMAIN result.stacks) \X (DOMAIN result.stacks) : mm[1] <= mm[2]}

NoSmaller(m1, m2, f) ==
  /\ DrawnWidth(result.stacks[m2], f) >= DrawnWidth(result.stacks[m1], f)
  /\ DrawnHeight(result.stacks[m2], f) >= DrawnHeight(result.stacks[m1], f)

\* C6 as claimed: for one tracked cell and margins m1 <= m2, in every frame of
\* the track the square drawn into the m2 stack is at least as wide and as
\* high as the one drawn into the m1 stack, with either ignore_borders setting.
C6_DrawnSideMonotone ==
  Composed1("one") =>
    \A mm \in MarginPairs : \A i \in 1..Len(TheTrack) :
      NoSmaller(mm[1], mm[2], TheTrack[i].fr.i)

\* C6 amended: the same, when ignore_borders is true or the m2 square fits
\* into the image.
C6_DrawnSideMonotoneUnlessOmitted ==
  Composed1("one") =>
    \A mm \in MarginPairs : \A i \in 1..Len(TheTrack) :
      (args.ignore_borders \/ ~SquareHits(TheTrack[i].bb, mm[2])) =>
        NoSmaller(mm[1], mm[2], TheTrack[i].fr.i)

C6_Witness ==
  /\ Composed1("one") /\ args.ignore_borders /\ Len(args.margins) = 2
  /\ SquareHits(TheTrack[1].bb, args.margins[2])
  /\ ~SquareHits(TheTrack[1].bb, args.margins[1])
  /\ DrawnWidth(result.stacks[args.margins[2]], 0) > DrawnWidth(result.stacks[args.margins[1]], 0)
  /\ DrawnWidth(result.stacks[args.margins[1]], 0) > 0

\* The collection of the two cells with the tracks in the other order.
Swapped == <<args.colls[1][1], args.colls[1][3], args.colls[1][2]>>

SwappedStacks ==
  VaryingMarginsCentered(args.area, <<Swapped>>, args.margins, args.ignore_borders).stacks

FirstBox == args.colls[1][2].tr[1].bb

SecondBox == args.colls[1][3].tr[Len(args.colls[1][3].tr)].bb

\* C9 as claimed: the stacks do not depend on the order in which two ROIs are
\* drawn.
C9_OrderIndependent ==
  Composed1("two") => result.stacks = SwappedStacks

\* C9 amended: the stacks do not depend on the order in which two ROIs are
\* drawn when both get the same draw value: both fit, both hit a border, or
\* ignore_borders is false (a ROI that hits a border is then not drawn).
C9_OrderIndependentSameValue ==
  (/\ Composed1("two")
   /\ \/ ~args.ignore_borders
      \/ SquareHits(FirstBox, 100) = SquareHits(SecondBox, 100)) =>
    result.stacks = SwappedStacks

\* Two overlapping ROIs in one frame, both clipped, one drawn over the other.
C9_Witness ==
  /\ Composed1("two") /\ args.ignore_borders
  /\ SquareHits(FirstBox, 100) /\ SquareHits(SecondBox, 100)
  /\ FirstBox # SecondBox
  /\ SquareOf(FirstBox, 100).x1 < SquareOf(SecondBox, 100).x2
  /\ SquareOf(SecondBox, 100).x1 < SquareOf(FirstBox, 100).x2
  /\ args.colls[1][3].tr[Len(args.colls[1][3].tr)].fr = IntKey(0)
  /\ result.stacks[100][0][0][1] = 2

(* ---------------- properties: empty sites and the StackMeta --------------- *)

TheMargin == args.margins[1]

Sites == args.colls[2]

SiteSquare(i) == SquareOf(Sites[i].tr[1].bb, TheMargin)

SiteDrawn(i) == args.ignore_borders \/ ~HitsBorder(SiteSquare(i), Width, Height)

\* The squares of the synthetic sites that are drawn.
DrawnSquares == {SiteSquare(i) : i \in {j \in 1..Len(Sites) : SiteDrawn(j)}}

Covers(sq, y, x) == sq.x1 <= x /\ x < sq.x2 /\ sq.y1 <= y /\ y < sq.y2

\* The stacks built without the synthetic collection.
WithoutSites ==
  VaryingMarginsCentered(args.area, <<args.colls[1]>>, args.margins, args.ignore_borders).stacks

OnlyPlaceholderKeys ==
  \A i \in 1..Len(Sites) : Len(Sites[i].tr) = 1 /\ Sites[i].tr[1].fr = NoneKey

\* C4 as claimed: the synthetic tracks carry only a placeholder frame key and
\* are never drawn: the stacks equal those built without them.
C4_SitesNeverDrawn ==
  Composed1("empty") => (OnlyPlaceholderKeys /\ result.stacks = WithoutSites)

\* The stack s holds a drawn pixel wherever one of the squares sqs lies, in
\* every frame, and equals the stack base everywhere else.
SitesOver(s, base, sqs) ==
  \A p \in Pixels :
    IF \E sq \in sqs : Covers(sq, p[2], p[3])
    THEN s[p[1]][p[2]][p[3]] \in {1, 2}
    ELSE s[p[1]][p[2]][p[3]] = base[p[1]][p[2]][p[3]]

\* C4 amended: the synthetic tracks carry only the frame key None, and each
\* synthetic box that fits the image (or, with ignore_borders, is clipped) is
\* drawn into every frame: every pixel of its square is non-zero in each frame,
\* and the stacks equal those built without the synthetic collection at the
\* pixels outside all drawn squares.
C4_SitesDrawnInEveryFrame ==
  Composed1("empty") =>
    /\ OnlyPlaceholderKeys
    /\ SitesOver(result.stacks[TheMargin], WithoutSites[TheMargin], DrawnSquares)

\* A synthetic box that fits, drawn into the last frame, where no cell is.
C4_Witness ==
  /\ Composed1("empty") /\ ~args.ignore_borders /\ Len(args.colls[1]) = 2
  /\ ~HitsBorder(SiteSquare(1), Width, Height)
  /\ WithoutSites[TheMargin][NFrames - 1][0][0] = 0
  /\ result.stacks[TheMargin][NFrames - 1][0][0] = 1

MetaCount ==
  Cardinality({i \in 1..Len(args.colls) : HasKey(args.colls[i], NoneKey)})

TheMetaOf(colls) ==
  Lookup(colls[CHOOSE i \in 1..Len(colls) : HasKey(colls[i], NoneKey)], NoneKey)

\* One zero-initialised stack per margin, of the shape the StackMeta gives: the
\* cells of this run are all in frame 0, so every other frame is still 0.
Allocated(meta) ==
  /\ result.ok
  /\ DOMAIN result.stacks = {args.margins[i] : i \in 1..Len(args.margins)}
  /\ \A m \in DOMAIN result.stacks :
       /\ DOMAIN result.stacks[m] = 0..(meta.n_frames - 1)
       /\ \A f \in DOMAIN result.stacks[m] :
            /\ DOMAIN result.stacks[m][f] = 0..(meta.height - 1)
            /\ \A y \in DOMAIN result.stacks[m][f] :
                 /\ DOMAIN result.stacks[m][f][y] = 0..(meta.width - 1)
                 /\ \A x \in DOMAIN result.stacks[m][f][y] :
                      /\ result.stacks[m][f][y][x] \in 0..2
                      /\ f # 0 => result.stacks[m][f][y][x] = 0

\* C10 as claimed: when exactly one collection carries a StackMeta, at whatever
\* position, the stacks are allocated from it.
C10_MetaFoundAnywhere ==
  (Composed1("meta") /\ MetaCount = 1) => Allocated(TheMetaOf(args.colls))

\* C10 amended: when the first collection carries the StackMeta, the stacks
\* are allocated from it.
C10_MetaFoundInFirst ==
  (Composed1("meta") /\ HasKey(args.colls[1], NoneKey)) => Allocated(TheMetaOf(args.colls))

C10_Witness ==
  /\ Composed1("meta") /\ HasKey(args.colls[1], NoneKey) /\ Len(args.colls[2]) > 0
  /\ result.ok
  /\ DOMAIN result.stacks[TheMargin] = 0..(NFrames - 1)
  /\ \E y \in 0..(Height - 1), x \in 0..(Width - 1) : result.stacks[TheMargin][0][y][x] # 0

(* ---------------------------------- main --------------------------------- *)

\* The value of main's variable `empty`: the list of coordinates given with
\* --empty, or the dict make_empty_bboxes returned.
List(v) == [kind |-> "list", v |-> v]

Dict(v) == [kind |-> "dict", v |-> v]

\* if empty:
Truthy(e) == Len(e.v) > 0

\* enumerate(coords): iterating a list yields its elements, iterating a dict
\* its keys.
Iter(e) == IF e.kind = "dict" THEN [i \in 1..Len(e.v) |-> e.v[i].k] ELSE e.v

\* The items `empty` contributes to the compositor: those of the dict; an
\* empty list is skipped by `if bbx`.
AsCollection(e) == IF e.kind = "dict" THEN e.v ELSE <<>>

\* The variable `empty` after `empty = make_empty_bboxes(empty, area)`.
Rebound(made) == Dict(made.v)

\* Lines 290 and 291 for one file: the stacks exported, or the error raised.
Exported(e, r) ==
  IF r.ok THEN [ok |-> TRUE, error |-> "", empty |-> e, stacks |-> r.stacks, diag |-> r.diag]
  ELSE [ok |-> FALSE, error |-> r.error, empty |-> e, diag |-> <<>>]

\* Lines 288 to 291 for one file, made being what make_empty_bboxes returned.
AfterMade(file, made, e, area, margin, ignore_borders) ==
  IF ~made.ok THEN [ok |-> FALSE, error |-> made.error, empty |-> e, diag |-> <<>>]
  ELSE Exported(Rebound(made),
                VaryingMarginsCentered(area, <<file, AsCollection(Rebound(made))>>,
                                       margin, ignore_borders))

\* The body of `for p in path` (lines 287..291) for one file.
LoopBody(file, e, area, margin, ignore_borders) ==
  IF Truthy(e)
  THEN AfterMade(file, MakeEmptyBBoxes(Iter(e), area), e, area, margin, ignore_borders)
  ELSE Exported(e, VaryingMarginsCentered(area, <<file, AsCollection(e)>>, margin, ignore_borders))

(* --------------------------- specification: main -------------------------- *)

\* The coordinates given with --empty.
SiteCoords == {Pair(0, 0), Pair(Width - 1, Height - 1)}

InitMain ==
  /\ pc = "loop"
  /\ stack = Zeros(NFrames, Height, Width)
  /\ before = Zeros(NFrames, Height, Width)
  /\ call = NoCall
  /\ roi = NoRoi
  /\ diag = <<>>
  /\ result = NoCall
  /\ out = <<>>
  /\ \E path \in SeqsUpTo(Files, MaxFiles) \ {<<>>}, coords \in SeqsUpTo(SiteCoords, MaxEmpty),
        area \in Areas, margin \in {<<100>>, <<100, 225>>}, ignore_borders \in BOOLEAN :
       /\ args = [op |-> "main", path |-> path, area |-> area, margin |-> margin,
                  ignore_borders |-> ignore_borders, empty |-> List(coords)]
       /\ empty = List(coords)

Looped(r) ==
  /\ empty' = r.empty
  /\ diag' = r.diag
  /\ out' = IF r.ok THEN Append(out, r.stacks) ELSE out
  /\ pc' = IF ~r.ok THEN "error" ELSE IF Len(out) + 1 = Len(args.path) THEN "done" ELSE "loop"
  /\ UNCHANGED <<stack, before, call, roi, args, result>>

\* One pass of `for p in path`: the next file read, the empty sites made, the
\* stacks built and exported.
ProcessFile ==
  /\ pc = "loop"
  /\ Looped(LoopBody(args.path[Len(out) + 1], empty, args.area, args.margin, args.ignore_borders))

NextMain == ProcessFile

SpecMain == InitMain /\ [][NextMain]_vars

\* What main exports for the k-th file when that file is processed alone.
Alone(k) == LoopBody(args.path[k], args.empty, args.area, args.margin, args.ignore_borders)

\* C5: every file of the list is processed, and the stacks exported for the
\* k-th file are those exported when it is processed alone with the same
\* parameters.
C5_FilesIndependent ==
  (args.op = "main") =>
    /\ pc # "error"
    /\ pc = "done" => Len(out) = Len(args.path)
    /\ \A k \in 1..Len(out) : Alone(k).ok /\ out[k] = Alone(k).stacks

\* C5 for runs without empty sites.
C5_FilesIndependentNoSites ==
  (args.op = "main" /\ ~Truthy(args.empty)) =>
    /\ pc # "error"
    /\ pc = "done" => Len(out) = Len(args.path)
    /\ \A k \in 1..Len(out) : Alone(k).ok /\ out[k] = Alone(k).stacks

(* -------------------- specification: make_empty_bboxes -------------------- *)

InitEmpty ==
  /\ pc = "idle"
  /\ stack = Zeros(NFrames, Height, Width)
  /\ before = Zeros(NFrames, Height, Width)
  /\ call = NoCall
  /\ roi = NoRoi
  /\ diag = <<>>
  /\ args = NoCall
  /\ result = NoCall
  /\ empty = NoCall
  /\ out = <<>>

Made(r, a) ==
  /\ pc' = "made"
  /\ args' = a
  /\ result' = r
  /\ UNCHANGED <<stack, before, call, roi, diag, empty, out>>

\* make_empty_bboxes for coordinates in and around the image.
MakeEmpty ==
  /\ pc = "idle"
  /\ \E coords \in SeqsUpTo({Pair(x, y) : x \in (-2)..(Width + 1), y \in (-2)..(Height + 1)}, MaxEmpty),
        area \in Areas :
       Made(MakeEmptyBBoxes(coords, area), [op |-> "make_empty_bboxes", coords |-> coords, area |-> area])

NextEmpty == MakeEmpty

SpecEmpty == InitEmpty /\ [][NextEmpty]_vars

IsSquare(area) == EmptyWidth(area) * EmptyWidth(area) = area

Within(a, b, d) == a - b <= d /\ b - a <= d

\* One track per coordinate, keyed by position, each a single bounding box
\* whose centre is within one pixel of the coordinate.
TracksAtCoords ==
  /\ result.ok
  /\ Len(result.v) = Len(args.coords)
  /\ \A i \in 1..Len(result.v) :
       /\ result.v[i].k = IntKey(i - 1)
       /\ Len(result.v[i].tr) = 1
       /\ Within(result.v[i].tr[1].bb.x_mean2, 2 * args.coords[i].x, 2)
       /\ Within(result.v[i].tr[1].bb.y_mean2, 2 * args.coords[i].y, 2)

\* The side of each box over its inclusive extents, as insert_bb measures it,
\* is round(sqrt(area)).
SidesAsMeasured ==
  \A i \in 1..Len(result.v) :
    /\ BBSize(result.v[i].tr[1].bb.x_min, result.v[i].tr[1].bb.x_max) = RIntSqrt(args.area, 1)
    /\ IsSquare(args.area) =>
         BBSize(result.v[i].tr[1].bb.y_min, result.v[i].tr[1].bb.y_max) = RIntSqrt(args.area, 1)

\* C7: make_empty_bboxes returns one track per coordinate, keyed 0..n-1, each a
\* single bounding box of side round(sqrt(area)) over its inclusive extents,
\* centred within one pixel of the coordinate.
C7_EmptyBoxes ==
  (pc = "made") => (TracksAtCoords /\ SidesAsMeasured)

\* C7 without the side: the tracks, their keys and their centres.
C7_EmptyBoxesCentred ==
  (pc = "made") => TracksAtCoords

====
